---- MODULE Spec2Model ----
(***************************************************************************)
(* Model of gui::utils::Image and gui::utils::TextureAtlas                 *)
(* (src/utils/image.cpp, src/utils/image.hpp).                             *)
(*                                                                         *)
(* An Image is a record of its four members; data_ is the byte vector,     *)
(* kept 1-based here (byte k of the vector is data_[k + 1]).  `image` is   *)
(* the Image the Image operations are called on (SpecImage).  The atlas    *)
(* state is the three members of TextureAtlas.  `call` and `ret` hold the  *)
(* last operation and what it returned; `added` and `shelf` are history    *)
(* variables used only by the properties, as is lastClear (whether clear   *)
(* was called, and the names registered when it last was); nOps counts the *)
(* mutating calls made so far and is capped by MaxOps.                     *)
(***************************************************************************)
EXTENDS Integers, Sequences, FiniteSets

VARIABLES atlasImage_, regions_, regionMap_, textures, call, ret, added, shelf,
          nOps, lastClear, image

vars == <<atlasImage_, regions_, regionMap_, textures, call, ret, added, shelf,
          nOps, lastClear, image>>

atlasVars == <<atlasImage_, regions_, regionMap_>>

(***************************************************************************)
(* Bounds of the model.                                                    *)
(***************************************************************************)
AtlasW == 3
AtlasH == 2
MaxOps == 4

\* the largest width and height of an Image, and the number of calls made on it
MaxSide == 2
MaxImageOps == 1

Names == {"a", "b", "c"}

Formats == {"RGB", "RGBA", "BGR", "BGRA", "Grayscale"}

Max(a, b) == IF a > b THEN a ELSE b

(***************************************************************************)
(* Color (core/math_types.hpp): four channels, each defaulting to 1.       *)
(***************************************************************************)
Color(r, g, b, a) == [a |-> a, b |-> b, r |-> r, g |-> g]

ColorDefault == Color(1, 1, 1, 1)

Color3(r, g, b) == Color(r, g, b, ColorDefault.a)

Rect(x, y, width, height) == [x |-> x, y |-> y, width |-> width, height |-> height]

(***************************************************************************)
(* Image                                                                   *)
(***************************************************************************)
getBytesPerPixel(format) ==
    CASE format = "RGB" -> 3
      [] format = "RGBA" -> 4
      [] format = "BGR" -> 3
      [] format = "BGRA" -> 4
      [] format = "Grayscale" -> 1
      [] OTHER -> 0

\* std::vector<uint8_t>::resize: keeps the leading elements, zero-fills new ones
VectorResize(data, n) == [i \in 1..n |-> IF i <= Len(data) THEN data[i] ELSE 0]

\* the product of two 16-bit values, as its high and low 16 bits
Mul16(x, y) ==
    LET p00 == (x % 256) * (y % 256)
        mid == (x % 256) * (y \div 256) + (x \div 256) * (y % 256)
        p11 == (x \div 256) * (y \div 256)
        low == p00 + (mid % 256) * 256
    IN  [hi |-> (p11 + mid \div 256 + low \div 65536) % 65536, lo |-> low % 65536]

\* a * b in unsigned int: the product modulo 2^32
UnsignedMul(a, b) ==
    LET ll == Mul16(a % 65536, b % 65536)
        hl == Mul16(a \div 65536, b % 65536)
        lh == Mul16(a % 65536, b \div 65536)
    IN  ((ll.hi + hl.lo + lh.lo) % 65536) * 65536 + ll.lo

\* width * height * getBytesPerPixel(), an unsigned int
bufferSize(width, height, format) ==
    UnsignedMul(UnsignedMul(width, height), getBytesPerPixel(format))

Image(width, height, format) ==
    [data_ |-> VectorResize(<<>>, bufferSize(width, height, format)),
     format_ |-> format, height_ |-> height, width_ |-> width]

ImageDefault == [data_ |-> <<>>, format_ |-> "RGBA", height_ |-> 0, width_ |-> 0]

create(img, width, height, format) ==
    [data_ |-> VectorResize(img.data_, bufferSize(width, height, format)),
     format_ |-> format, height_ |-> height, width_ |-> width]

getPixelIndex(img, x, y) == (y * img.width_ + x) * getBytesPerPixel(img.format_)

(***************************************************************************)
(* float arithmetic of the luminance expression.  A non-negative float is  *)
(* [m, e], the value m * 2^e with m = 0 or 2^23 <= m < 2^24; products and  *)
(* sums are rounded to nearest, ties to even, as IEEE-754 binary32 does.   *)
(***************************************************************************)
Pow2(n) == IF n <= 0 THEN 1 ELSE 2 ^ n

RECURSIVE BitLen(_)
BitLen(n) == IF n <= 0 THEN 0 ELSE 1 + BitLen(n \div 2)

F32(m, e) == [m |-> m, e |-> e]

\* q * 2^e with the dropped part rem (of which half is one half): rounded and
\* renormalised
F32Round(q, rem, half, e) ==
    LET up == rem > half \/ (rem = half /\ q % 2 = 1)
        m == IF up THEN q + 1 ELSE q
    IN  IF m = Pow2(24) THEN F32(Pow2(23), e + 1) ELSE F32(m, e)

\* c * v for a float c and an integer v in 0..255 held in a float
F32MulInt(c, v) ==
    IF v = 0 \/ c.m = 0
    THEN F32(0, 0)
    ELSE LET hi == (c.m \div 256) * v + ((c.m % 256) * v) \div 256
             lo == ((c.m % 256) * v) % 256
             s == Max(0, BitLen(hi) + 8 - 24)
         IN  IF s = 0
             THEN F32(hi * 256 + lo, c.e)
             ELSE F32Round(hi * Pow2(8 - s) + lo \div Pow2(s), lo % Pow2(s),
                           Pow2(s - 1), c.e + s)

\* a + b, computed with three extra bits, the last one sticky
F32Add(a, b) ==
    IF a.m = 0 THEN b
    ELSE IF b.m = 0 THEN a
    ELSE LET big == IF a.e >= b.e THEN a ELSE b
             small == IF a.e >= b.e THEN b ELSE a
             d == big.e - small.e
             shifted == IF d >= 27 THEN 0 ELSE (small.m * 8) \div Pow2(d)
             lost == d >= 27 \/ (small.m * 8) % Pow2(d) # 0
             sum == big.m * 8 + (IF lost /\ shifted % 2 = 0 THEN shifted + 1 ELSE shifted)
             carry == sum >= Pow2(27)
             t == IF carry
                  THEN (IF sum % 2 = 1 /\ (sum \div 2) % 2 = 0
                        THEN sum \div 2 + 1 ELSE sum \div 2)
                  ELSE sum
         IN  F32Round(t \div 8, t % 8, 4, IF carry THEN big.e + 1 ELSE big.e)

\* static_cast<uint8_t> of a non-negative float below 256
F32ToUint8(f) == IF f.e >= 0 THEN f.m * Pow2(f.e) ELSE f.m \div Pow2(0 - f.e)

\* static_cast<uint8_t>(0.299f * r + 0.587f * g + 0.114f * b)
Luminance(color) ==
    F32ToUint8(F32Add(F32Add(F32MulInt(F32(10032775, -25), color.r),
                             F32MulInt(F32(9848226, -24), color.g)),
                      F32MulInt(F32(15300821, -27), color.b)))

setPixelUnsafe(img, x, y, color) ==
    LET index == getPixelIndex(img, x, y) + 1
        d == img.data_
    IN  CASE img.format_ = "RGB" ->
               [img EXCEPT !.data_ = [d EXCEPT ![index] = color.r,
                                               ![index + 1] = color.g,
                                               ![index + 2] = color.b]]
          [] img.format_ = "RGBA" ->
               [img EXCEPT !.data_ = [d EXCEPT ![index] = color.r,
                                               ![index + 1] = color.g,
                                               ![index + 2] = color.b,
                                               ![index + 3] = color.a]]
          [] img.format_ = "BGR" ->
               [img EXCEPT !.data_ = [d EXCEPT ![index] = color.b,
                                               ![index + 1] = color.g,
                                               ![index + 2] = color.r]]
          [] img.format_ = "BGRA" ->
               [img EXCEPT !.data_ = [d EXCEPT ![index] = color.b,
                                               ![index + 1] = color.g,
                                               ![index + 2] = color.r,
                                               ![index + 3] = color.a]]
          [] img.format_ = "Grayscale" ->
               [img EXCEPT !.data_ = [d EXCEPT ![index] = Luminance(color)]]
          [] OTHER -> img

getPixelUnsafe(img, x, y) ==
    LET index == getPixelIndex(img, x, y) + 1
        d == img.data_
    IN  CASE img.format_ = "RGB" -> Color3(d[index], d[index + 1], d[index + 2])
          [] img.format_ = "RGBA" ->
               Color(d[index], d[index + 1], d[index + 2], d[index + 3])
          [] img.format_ = "BGR" -> Color3(d[index + 2], d[index + 1], d[index])
          [] img.format_ = "BGRA" ->
               Color(d[index + 2], d[index + 1], d[index], d[index + 3])
          [] img.format_ = "Grayscale" -> Color3(d[index], d[index], d[index])
          [] OTHER -> ColorDefault

\* faulty variant: the write without the bounds test of setPixel
setPixelUnchecked(img, x, y, color) == setPixelUnsafe(img, x, y, color)

setPixel(img, x, y, color) ==
    IF x < img.width_ /\ y < img.height_
    THEN setPixelUnsafe(img, x, y, color)
    ELSE img

getPixel(img, x, y) ==
    IF x < img.width_ /\ y < img.height_
    THEN getPixelUnsafe(img, x, y)
    ELSE ColorDefault

\* TLC hands an operator its arguments unevaluated; reading a member of the
\* image makes one iteration's image be computed before the next one starts.
Evaluated(img) == img.width_ >= 0

\* the inner loop of the copy loops of addTexture and optimize, from column x:
\*   dst.setPixel(dx + x, dy + y, src.getPixel(sx + x, sy + y))
RECURSIVE CopyRow(_, _, _, _, _, _, _, _, _)
CopyRow(dst, src, dx, dy, sx, sy, w, y, x) ==
    IF Evaluated(dst) /\ x < w
    THEN CopyRow(setPixel(dst, dx + x, dy + y, getPixel(src, sx + x, sy + y)),
                 src, dx, dy, sx, sy, w, y, x + 1)
    ELSE dst

\* the outer loop, from row y
RECURSIVE CopyRows(_, _, _, _, _, _, _, _, _)
CopyRows(dst, src, dx, dy, sx, sy, w, h, y) ==
    IF Evaluated(dst) /\ y < h
    THEN CopyRows(CopyRow(dst, src, dx, dy, sx, sy, w, y, 0),
                  src, dx, dy, sx, sy, w, h, y + 1)
    ELSE dst

(***************************************************************************)
(* Image::resize.  scaleX is the float quotient of the two widths and the  *)
(* source column is the float product x * scaleX cut to an unsigned.       *)
(***************************************************************************)
RECURSIVE F32DivShift(_, _, _)
F32DivShift(a, b, k) ==
    IF (a * Pow2(k)) \div b >= Pow2(23) THEN k ELSE F32DivShift(a, b, k + 1)

\* static_cast<float>(a) / b for unsigned a and b > 0
F32DivInt(a, b) ==
    IF a = 0
    THEN F32(0, 0)
    ELSE LET k == F32DivShift(a, b, 0)
             n == a * Pow2(k)
         IN  F32Round(n \div b, 2 * (n % b), b, 0 - k)

\* static_cast<unsigned int>(x * scale)
resizeSource(x, scale) == F32ToUint8(F32MulInt(scale, x))

\* the inner loop of resize, from column x
RECURSIVE resizeRow(_, _, _, _, _, _)
resizeRow(newImage, img, scaleX, scaleY, y, x) ==
    IF Evaluated(newImage) /\ x < newImage.width_
    THEN resizeRow(setPixel(newImage, x, y,
                            getPixel(img, resizeSource(x, scaleX),
                                     resizeSource(y, scaleY))),
                   img, scaleX, scaleY, y, x + 1)
    ELSE newImage

\* the outer loop, from row y
RECURSIVE resizeRows(_, _, _, _, _)
resizeRows(newImage, img, scaleX, scaleY, y) ==
    IF Evaluated(newImage) /\ y < newImage.height_
    THEN resizeRows(resizeRow(newImage, img, scaleX, scaleY, y, 0),
                    img, scaleX, scaleY, y + 1)
    ELSE newImage

\* the scale factors are used only when both loops run, so only for
\* width > 0 and height > 0
resize(img, width, height) ==
    IF width = img.width_ /\ height = img.height_
    THEN img
    ELSE IF width = 0 \/ height = 0
    THEN Image(width, height, img.format_)
    ELSE resizeRows(Image(width, height, img.format_), img,
                    F32DivInt(img.width_, width), F32DivInt(img.height_, height), 0)

(***************************************************************************)
(* Image::flipHorizontally, Image::flipVertically: byte copies.  k is a    *)
(* position of data_ counted from 1.                                       *)
(***************************************************************************)
\* the byte of the buffer that byte k is read from: same row, column
\* width_ - 1 - x, same offset in the pixel
flipHorizontallySource(img, k) ==
    LET bytesPerPixel == getBytesPerPixel(img.format_)
        rowSize == img.width_ * bytesPerPixel
        y == (k - 1) \div rowSize
        x == ((k - 1) % rowSize) \div bytesPerPixel
        flippedX == img.width_ - 1 - x
    IN  y * rowSize + flippedX * bytesPerPixel + ((k - 1) % bytesPerPixel) + 1

flipHorizontally(img) ==
    [img EXCEPT !.data_ = [k \in 1..Len(img.data_) |->
                              img.data_[flipHorizontallySource(img, k)]]]

\* rows y < height_ / 2 are exchanged with rows height_ - 1 - y; a middle
\* row stays
flipVerticallySource(img, k) ==
    LET rowSize == img.width_ * getBytesPerPixel(img.format_)
        y == (k - 1) \div rowSize
        flippedY == img.height_ - 1 - y
        swapped == y < img.height_ \div 2 \/ flippedY < img.height_ \div 2
    IN  IF swapped THEN flippedY * rowSize + ((k - 1) % rowSize) + 1 ELSE k

\* faulty variant: the loop runs over every row, exchanging each pair twice
flipVerticallyAllRows(img) == img

flipVertically(img) ==
    [img EXCEPT !.data_ = [k \in 1..Len(img.data_) |->
                              img.data_[flipVerticallySource(img, k)]]]

(***************************************************************************)
(* Image::rotate.  Coordinates are kept doubled, so that the centre        *)
(* width_ / 2.0f is the integer width_.  The angles of the model are those *)
(* whose cosine and sine are exact floats: angle 0, radians 0, cos 1,      *)
(* sin 0; every product and sum of the loop is then exact.                 *)
(***************************************************************************)
RotateAngles == {0}

rotateCos(angle) == CASE angle = 0 -> 1

rotateSin(angle) == CASE angle = 0 -> 0

\* static_cast<int> of n / 2: towards zero
TruncHalf(n) == IF n >= 0 THEN n \div 2 ELSE 0 - ((0 - n) \div 2)

\* std::ceil of n / 2
CeilHalf(n) == IF n >= 0 THEN (n + 1) \div 2 ELSE 0 - ((0 - n) \div 2)

\* one iteration of the inner loop of rotate
rotatePixel(rotated, img, cosAngle, sinAngle, x, y) ==
    LET centerX == img.width_
        centerY == img.height_
        dx == 2 * x - centerX
        dy == 2 * y - centerY
        srcX == TruncHalf(centerX + (dx * cosAngle - dy * sinAngle))
        srcY == TruncHalf(centerY + (dx * sinAngle + dy * cosAngle))
    IN  IF srcX >= 0 /\ srcX < img.width_ /\ srcY >= 0 /\ srcY < img.height_
        THEN setPixel(rotated, x, y, getPixel(img, srcX, srcY))
        ELSE rotated

RECURSIVE rotateRow(_, _, _, _, _, _)
rotateRow(rotated, img, cosAngle, sinAngle, y, x) ==
    IF Evaluated(rotated) /\ x < img.width_
    THEN rotateRow(rotatePixel(rotated, img, cosAngle, sinAngle, x, y),
                   img, cosAngle, sinAngle, y, x + 1)
    ELSE rotated

RECURSIVE rotateRows(_, _, _, _, _)
rotateRows(rotated, img, cosAngle, sinAngle, y) ==
    IF Evaluated(rotated) /\ y < img.height_
    THEN rotateRows(rotateRow(rotated, img, cosAngle, sinAngle, y, 0),
                    img, cosAngle, sinAngle, y + 1)
    ELSE rotated

rotate(img, angle) ==
    rotateRows(Image(img.width_, img.height_, img.format_), img,
               rotateCos(angle), rotateSin(angle), 0)

(***************************************************************************)
(* Image::applyGrayscale.  The loop reads and writes pixel[0..2] whatever  *)
(* the format: with one byte per pixel the last pixels reach the two bytes *)
(* past the end of data_.  `beyond` is what those two bytes hold; the loop *)
(* runs over the buffer followed by them, and data_ keeps its own length.  *)
(***************************************************************************)
RECURSIVE applyGrayscaleLoop(_, _, _, _)
applyGrayscaleLoop(d, bytesPerPixel, numPixels, i) ==
    IF Len(d) >= 0 /\ i < numPixels
    THEN LET k == i * bytesPerPixel + 1
             gray == Luminance(Color3(d[k], d[k + 1], d[k + 2]))
         IN  applyGrayscaleLoop([d EXCEPT ![k] = gray, ![k + 1] = gray, ![k + 2] = gray],
                                bytesPerPixel, numPixels, i + 1)
    ELSE d

\* the byte indices iteration i of the loop reads and writes: pixel[0],
\* pixel[1], pixel[2] with pixel = &data_[i * bytesPerPixel]
applyGrayscaleIndices(img, i) ==
    {i * getBytesPerPixel(img.format_) + k : k \in 0..2}

applyGrayscale(img, beyond) ==
    [img EXCEPT !.data_ =
        SubSeq(applyGrayscaleLoop(img.data_ \o beyond, getBytesPerPixel(img.format_),
                                  img.width_ * img.height_, 0),
               1, Len(img.data_))]

(***************************************************************************)
(* Image::applyGaussianBlur.  sigma is given in eighths; the model takes   *)
(* the sigmas whose kernel has at most two taps.  One tap has weight       *)
(* exp(-0) / exp(-0) = 1; two taps have the same weight k / (k + k) = 0.5; *)
(* the weighted sums of bytes and their quotient by weightSum are then     *)
(* exact: a sample, or the half sum of two.  With no tap (sigma 0) the     *)
(* quotient is 0 / 0 and its conversion to uint8_t is whatever the build   *)
(* gives: nan.                                                             *)
(***************************************************************************)
BlurSigmas == {0, 1, 2}

\* static_cast<int>(std::ceil(sigma * 6))
blurKernelSize(sigma8) == (sigma8 * 6 + 7) \div 8

\* the loop over the taps, from tap i: acc.n in-range samples summed so far
RECURSIVE blurTaps(_, _, _, _, _, _, _)
blurTaps(src, x, y, kernelSize, horizontal, i, acc) ==
    IF i >= kernelSize
    THEN acc
    ELSE LET srcX == IF horizontal THEN x + i - kernelSize \div 2 ELSE x
             srcY == IF horizontal THEN y ELSE y + i - kernelSize \div 2
             inside == IF horizontal
                       THEN srcX >= 0 /\ srcX < src.width_
                       ELSE srcY >= 0 /\ srcY < src.height_
             pixel == getPixel(src, srcX, srcY)
         IN  blurTaps(src, x, y, kernelSize, horizontal, i + 1,
                      IF inside
                      THEN [r |-> acc.r + pixel.r, g |-> acc.g + pixel.g,
                            b |-> acc.b + pixel.b, a |-> acc.a + pixel.a,
                            n |-> acc.n + 1]
                      ELSE acc)

\* Color(static_cast<uint8_t>(sum.x), ...) after sum /= weightSum
blurColor(src, x, y, kernelSize, horizontal, nan) ==
    LET sum == blurTaps(src, x, y, kernelSize, horizontal, 0,
                        [r |-> 0, g |-> 0, b |-> 0, a |-> 0, n |-> 0])
    IN  IF sum.n = 0
        THEN Color(nan, nan, nan, nan)
        ELSE Color(sum.r \div sum.n, sum.g \div sum.n, sum.b \div sum.n,
                   sum.a \div sum.n)

\* one pass: dst.setPixel(x, y, ...) for every pixel, from pixel p = y * width + x
RECURSIVE blurPass(_, _, _, _, _, _)
blurPass(dst, src, kernelSize, horizontal, nan, p) ==
    IF Evaluated(dst) /\ p < src.width_ * src.height_
    THEN blurPass(setPixel(dst, p % src.width_, p \div src.width_,
                           blurColor(src, p % src.width_, p \div src.width_,
                                     kernelSize, horizontal, nan)),
                  src, kernelSize, horizontal, nan, p + 1)
    ELSE dst

applyGaussianBlur(img, sigma8, nan) ==
    LET kernelSize == blurKernelSize(sigma8)
        temp == blurPass(Image(img.width_, img.height_, img.format_), img,
                         kernelSize, TRUE, nan, 0)
    IN  blurPass(img, temp, kernelSize, FALSE, nan, 0)

(***************************************************************************)
(* Image::fillTriangle, Image::drawLine.  A Vector2f is [x, y] with both   *)
(* coordinates doubled: the model takes points with whole and half         *)
(* coordinates, for which the edge values are exact floats.                *)
(***************************************************************************)
Vector2f(x, y) == [x |-> x, y |-> y]

Min(a, b) == IF a < b THEN a ELSE b

\* the lambda edge(a, b, p), times four
edge(a, b, p) == (p.x - a.x) * (b.y - a.y) - (p.y - a.y) * (b.x - a.x)

\* faulty variant: a pixel whose centre lies on an edge is left out
fillTrianglePixelStrict(img, p1, p2, p3, color, x, y) ==
    LET p == Vector2f(2 * x + 1, 2 * y + 1)
    IN  IF edge(p2, p3, p) > 0 /\ edge(p3, p1, p) > 0 /\ edge(p1, p2, p) > 0
        THEN setPixel(img, x, y, color)
        ELSE img

\* faulty variant: the edge test accepts the other winding
fillTrianglePixelReversed(img, p1, p2, p3, color, x, y) ==
    LET p == Vector2f(2 * x + 1, 2 * y + 1)
    IN  IF edge(p2, p3, p) <= 0 /\ edge(p3, p1, p) <= 0 /\ edge(p1, p2, p) <= 0
        THEN setPixel(img, x, y, color)
        ELSE img

\* one iteration of the inner loop of fillTriangle
fillTrianglePixel(img, p1, p2, p3, color, x, y) ==
    LET p == Vector2f(2 * x + 1, 2 * y + 1)
    IN  IF edge(p2, p3, p) >= 0 /\ edge(p3, p1, p) >= 0 /\ edge(p1, p2, p) >= 0
        THEN setPixel(img, x, y, color)
        ELSE img

RECURSIVE fillTriangleRow(_, _, _, _, _, _, _, _)
fillTriangleRow(img, p1, p2, p3, color, maxX, y, x) ==
    IF Evaluated(img) /\ x < maxX
    THEN fillTriangleRow(fillTrianglePixel(img, p1, p2, p3, color, x, y),
                         p1, p2, p3, color, maxX, y, x + 1)
    ELSE img

RECURSIVE fillTriangleRows(_, _, _, _, _, _, _, _, _)
fillTriangleRows(img, p1, p2, p3, color, minX, maxX, maxY, y) ==
    IF Evaluated(img) /\ y < maxY
    THEN fillTriangleRows(fillTriangleRow(img, p1, p2, p3, color, maxX, y, minX),
                          p1, p2, p3, color, minX, maxX, maxY, y + 1)
    ELSE img

fillTriangle(img, p1, p2, p3, color) ==
    LET minX == Max(TruncHalf(Min(p1.x, Min(p2.x, p3.x))), 0)
        minY == Max(TruncHalf(Min(p1.y, Min(p2.y, p3.y))), 0)
        maxX == Min(CeilHalf(Max(p1.x, Max(p2.x, p3.x))), img.width_)
        maxY == Min(CeilHalf(Max(p1.y, Max(p2.y, p3.y))), img.height_)
    IN  fillTriangleRows(img, p1, p2, p3, color, minX, maxX, maxY, minY)

\* std::sqrt of a perfect square
SqrtExact(n) == CHOOSE r \in 0..n : r * r = n

\* the lines of the model run along an axis or have the slope 3 : 4 and the
\* thickness 5: there length is exact and nx * halfThickness, doubled, is the
\* whole number (-dy * thickness) / length, as a float too (0.8f * 2.5f and
\* 0.6f * 2.5f round to 2 and 1.5)

\* faulty variant: the normal points the other way, (dy, -dx) / length
drawLineQuadReversed(start, end, thickness) ==
    LET dx == end.x - start.x
        dy == end.y - start.y
        length == SqrtExact(dx * dx + dy * dy)
        nxh == (dy * thickness) \div length
        nyh == ((0 - dx) * thickness) \div length
    IN  <<Vector2f(start.x + nxh, start.y + nyh),
          Vector2f(end.x + nxh, end.y + nyh),
          Vector2f(end.x - nxh, end.y - nyh),
          Vector2f(start.x - nxh, start.y - nyh)>>

\* the vector `points` of drawLine, for length > 0
drawLineQuad(start, end, thickness) ==
    LET dx == end.x - start.x
        dy == end.y - start.y
        length == SqrtExact(dx * dx + dy * dy)
        nxh == ((0 - dy) * thickness) \div length
        nyh == (dx * thickness) \div length
    IN  <<Vector2f(start.x + nxh, start.y + nyh),
          Vector2f(end.x + nxh, end.y + nyh),
          Vector2f(end.x - nxh, end.y - nyh),
          Vector2f(start.x - nxh, start.y - nyh)>>

drawLine(img, start, end, color, thickness) ==
    LET dx == end.x - start.x
        dy == end.y - start.y
        length == SqrtExact(dx * dx + dy * dy)
    IN  IF length = 0
        THEN img
        ELSE LET points == drawLineQuad(start, end, thickness)
             IN  fillTriangle(fillTriangle(img, points[1], points[2], points[3], color),
                              points[1], points[3], points[4], color)

(***************************************************************************)
(* TextureGenerator::generatePerlinNoise.  The gradient table is filled    *)
(* from std::random_device: its draws are an input the caller does not     *)
(* give.  The model takes the draws 0 and 1/2, whose angles 0 and 3.14159f *)
(* have the cosines 1 and -1 as floats, widths 1, 2 and 4 and images of    *)
(* one row: there fy = 0, so the y component of a gradient is multiplied   *)
(* by 0 and ty = fade(0) = 0 gives value = nx0.  Distances are held in     *)
(* quarters, fade in 512ths, the accumulator in 4096ths; every float       *)
(* operation up to the accumulator is then exact.                          *)
(***************************************************************************)
Draws == {0, 1}

\* std::cos(dis(gen) * 2 * 3.14159f), the draw given in halves
gradientX(draw) == IF draw = 0 THEN 1 ELSE -1

\* t * t * t * (t * (t * 6 - 15) + 10) for t = t4 / 4, times 512
fade(t4) == (t4 * t4 * t4 * (t4 * (t4 * 6 - 60) + 160)) \div 2

\* a + t * (b - a) for t in 512ths: the result has 512 times the unit of a
lerp(t, a, b) == a * 512 + t * (b - a)

\* `value` of the innermost loop at (x, 0), in 2048ths
perlinValue(gradients, width, scale, frequency, x) ==
    LET fx == (x * scale * frequency * 4) \div width
        x0 == fx \div 4
        x1 == x0 + 1
        tx == fade(fx - 4 * x0)
        n00 == gradientX(gradients[(x0 % 256) + 1]) * (fx - 4 * x0)
        n10 == gradientX(gradients[(x1 % 256) + 1]) * (fx - 4 * x1)
    IN  lerp(tx, n00, n10)

\* noise[x][0] after the octaves from `octave` on, in 4096ths
RECURSIVE perlinAccumulate(_, _, _, _, _, _)
perlinAccumulate(gradients, width, scale, octaves, x, octave) ==
    IF octave >= octaves
    THEN 0
    ELSE (perlinValue(gradients, width, scale, Pow2(octave), x) * 2) \div Pow2(octave)
            + perlinAccumulate(gradients, width, scale, octaves, x, octave + 1)

perlinNoise(gradients, width, scale, octaves) ==
    [x \in 0..(width - 1) |-> perlinAccumulate(gradients, width, scale, octaves, x, 0)]

\* maxVal - minVal over the accumulator
perlinRange(noise) ==
    LET values == {noise[x] : x \in DOMAIN noise}
        minVal == CHOOSE v \in values : \A w \in values : v <= w
        maxVal == CHOOSE v \in values : \A w \in values : v >= w
    IN  [minVal |-> minVal, range |-> maxVal - minVal]

\* the quotient bits of a / b, until the mantissa is full
RECURSIVE F32DivBits(_, _, _, _)
F32DivBits(q, rem, b, k) ==
    IF q >= Pow2(23)
    THEN F32Round(q, 2 * rem, b, 0 - k)
    ELSE F32DivBits(2 * q + (IF 2 * rem >= b THEN 1 ELSE 0), (2 * rem) % b, b, k + 1)

\* the float a / b for 0 <= a <= b, b > 0
F32Div(a, b) == IF a = 0 THEN F32(0, 0) ELSE F32DivBits(a \div b, a % b, b, 0)

\* static_cast<uint8_t>(normalizedValue * 255); with range = 0 the quotient
\* is 0 / 0 and the conversion of the NaN gives `nan`
perlinPixel(noise, x, nan) ==
    LET r == perlinRange(noise)
    IN  IF r.range = 0
        THEN nan
        ELSE F32ToUint8(F32MulInt(F32Div(noise[x] - r.minVal, r.range), 255))

\* result.setPixel(x, 0, Color(pixel, pixel, pixel)) from column x on
RECURSIVE perlinSetPixels(_, _, _, _)
perlinSetPixels(result, noise, nan, x) ==
    IF Evaluated(result) /\ x < result.width_
    THEN LET pixel == perlinPixel(noise, x, nan)
         IN  perlinSetPixels(setPixel(result, x, 0, Color3(pixel, pixel, pixel)),
                             noise, nan, x + 1)
    ELSE result

generatePerlinNoise(width, height, scale, octaves, gradients, nan) ==
    perlinSetPixels(Image(width, height, "Grayscale"),
                    perlinNoise(gradients, width, scale, octaves), nan, 0)

(***************************************************************************)
(* TextureAtlas                                                            *)
(***************************************************************************)
Region(name, bounds) == [name |-> name, bounds |-> bounds]

EmptyMap == [n \in {} |-> 0]

\* regionMap_[name] = index
MapPut(map, name, index) ==
    [n \in (DOMAIN map) \cup {name} |-> IF n = name THEN index ELSE map[n]]

TextureAtlas(width, height) ==
    [atlasImage_ |-> Image(width, height, "RGBA"),
     regions_ |-> <<>>,
     regionMap_ |-> EmptyMap]

Cursor(x, y, rowHeight) == [currentX |-> x, currentY |-> y, maxRowHeight |-> rowHeight]

\* one iteration of the loop over regions_ in addTexture
addTextureStep(cur, region, texW, atlasW) ==
    LET c == IF cur.currentX + texW > atlasW
             THEN Cursor(0, cur.currentY + cur.maxRowHeight, 0)
             ELSE cur
    IN  Cursor(c.currentX + region.bounds.width,
               c.currentY,
               Max(c.maxRowHeight, region.bounds.height))

RECURSIVE addTextureScan(_, _, _, _, _)
addTextureScan(regions, i, cur, texW, atlasW) ==
    IF i > Len(regions)
    THEN cur
    ELSE addTextureScan(regions, i + 1,
                        addTextureStep(cur, regions[i], texW, atlasW), texW, atlasW)

\* the cursor after the loop over regions_
addTextureCursor(atlas, texture) ==
    addTextureScan(atlas.regions_, 1, Cursor(0, 0, 0),
                   texture.width_, atlas.atlasImage_.width_)

\* the copy of the texture to the cursor and the registration of the region
addTextureCommit(atlas, name, texture, cur) ==
    LET region == Region(name, Rect(cur.currentX, cur.currentY,
                                    texture.width_, texture.height_))
        regions == Append(atlas.regions_, region)
    IN  [atlasImage_ |-> CopyRows(atlas.atlasImage_, texture,
                                  cur.currentX, cur.currentY, 0, 0,
                                  texture.width_, texture.height_, 0),
         regions_ |-> regions,
         regionMap_ |-> MapPut(atlas.regionMap_, name, Len(regions) - 1)]

\* faulty variant: the pixels are copied before the height check
addTextureCopyBeforeCheck(atlas, name, texture) ==
    LET cur == addTextureCursor(atlas, texture)
        done == addTextureCommit(atlas, name, texture, cur)
    IN  IF cur.currentY + texture.height_ > atlas.atlasImage_.height_
        THEN [ok |-> FALSE,
              atlas |-> [atlas EXCEPT !.atlasImage_ = done.atlasImage_]]
        ELSE [ok |-> TRUE, atlas |-> done]

\* addTexture past the name check: [ok |-> the value returned, atlas |-> the
\* atlas after the call]
addTexturePlace(atlas, name, texture) ==
    LET cur == addTextureCursor(atlas, texture)
    IN  IF cur.currentY + texture.height_ > atlas.atlasImage_.height_
        THEN [ok |-> FALSE, atlas |-> atlas]
        ELSE [ok |-> TRUE, atlas |-> addTextureCommit(atlas, name, texture, cur)]

\* faulty variant: no check that the name is already registered
addTextureNoNameCheck(atlas, name, texture) == addTexturePlace(atlas, name, texture)

addTexture(atlas, name, texture) ==
    IF name \in DOMAIN atlas.regionMap_
    THEN [ok |-> FALSE, atlas |-> atlas]
    ELSE addTexturePlace(atlas, name, texture)

\* getRegion: <<>> for nullptr, else <<the region pointed to>>
getRegion(atlas, name) ==
    IF name \in DOMAIN atlas.regionMap_
    THEN <<atlas.regions_[atlas.regionMap_[name] + 1]>>
    ELSE <<>>

\* the outcomes std::sort may give with the comparator a.height > b.height:
\* every arrangement of the regions with non-increasing heights
Arrangements(n) ==
    {p \in [1..n -> 1..n] : \A i, j \in 1..n : i # j => p[i] # p[j]}

SortOutcomes(regions) ==
    {[i \in 1..Len(regions) |-> regions[p[i]]] : p \in
        {q \in Arrangements(Len(regions)) :
            \A i, j \in 1..Len(regions) :
                i < j => ~(regions[q[j]].bounds.height > regions[q[i]].bounds.height)}}

\* the repacking loop of optimize over the sorted regions
RECURSIVE optimizeLoop(_, _, _, _, _)
optimizeLoop(regions, i, cur, newAtlas, atlasImage) ==
    IF i > Len(regions)
    THEN [regions |-> regions, newAtlas |-> newAtlas]
    ELSE LET region == regions[i]
             c == IF cur.currentX + region.bounds.width > newAtlas.width_
                  THEN Cursor(0, cur.currentY + cur.maxRowHeight, 0)
                  ELSE cur
             copied == CopyRows(newAtlas, atlasImage, c.currentX, c.currentY,
                                region.bounds.x, region.bounds.y,
                                region.bounds.width, region.bounds.height, 0)
             moved == [region EXCEPT !.bounds.x = c.currentX,
                                     !.bounds.y = c.currentY]
         IN  optimizeLoop([regions EXCEPT ![i] = moved], i + 1,
                          Cursor(c.currentX + region.bounds.width, c.currentY,
                                 Max(c.maxRowHeight, region.bounds.height)),
                          copied, atlasImage)

\* faulty variant: the positions stored count from one
rebuildRegionMapFromOne(regions, i, map) ==
    [n \in {regions[k].name : k \in 1..Len(regions)} |->
        CHOOSE k \in 1..Len(regions) : regions[k].name = n]

\* regionMap_.clear(); for i: regionMap_[regions_[i].name] = i
RECURSIVE rebuildRegionMap(_, _, _)
rebuildRegionMap(regions, i, map) ==
    IF i > Len(regions)
    THEN map
    ELSE rebuildRegionMap(regions, i + 1, MapPut(map, regions[i].name, i - 1))

\* faulty variant: the name index is not rebuilt after the repacking
optimizeStaleMap(atlas, sorted) ==
    LET packed == optimizeLoop(sorted, 1, Cursor(0, 0, 0),
                               Image(atlas.atlasImage_.width_,
                                     atlas.atlasImage_.height_,
                                     atlas.atlasImage_.format_),
                               atlas.atlasImage_)
    IN  [atlasImage_ |-> packed.newAtlas,
         regions_ |-> packed.regions,
         regionMap_ |-> atlas.regionMap_]

\* faulty variant: the new atlas image is created with width and height exchanged
optimizeSwappedSize(atlas, sorted) ==
    LET packed == optimizeLoop(sorted, 1, Cursor(0, 0, 0),
                               Image(atlas.atlasImage_.height_,
                                     atlas.atlasImage_.width_,
                                     atlas.atlasImage_.format_),
                               atlas.atlasImage_)
    IN  [atlasImage_ |-> packed.newAtlas,
         regions_ |-> packed.regions,
         regionMap_ |-> rebuildRegionMap(packed.regions, 1, EmptyMap)]

\* optimize, given the arrangement `sorted` that std::sort produced
optimize(atlas, sorted) ==
    LET packed == optimizeLoop(sorted, 1, Cursor(0, 0, 0),
                               Image(atlas.atlasImage_.width_,
                                     atlas.atlasImage_.height_,
                                     atlas.atlasImage_.format_),
                               atlas.atlasImage_)
    IN  [atlasImage_ |-> packed.newAtlas,
         regions_ |-> packed.regions,
         regionMap_ |-> rebuildRegionMap(packed.regions, 1, EmptyMap)]

\* faulty variant: the region list is not emptied
clearKeepsRegions(atlas) ==
    [atlasImage_ |-> create(atlas.atlasImage_, atlas.atlasImage_.width_,
                            atlas.atlasImage_.height_, atlas.atlasImage_.format_),
     regions_ |-> atlas.regions_,
     regionMap_ |-> EmptyMap]

clear(atlas) ==
    [atlasImage_ |-> create(atlas.atlasImage_, atlas.atlasImage_.width_,
                            atlas.atlasImage_.height_, atlas.atlasImage_.format_),
     regions_ |-> <<>>,
     regionMap_ |-> EmptyMap]

(***************************************************************************)
(* The incremental shelf packer of the specification: a cursor             *)
(* (x, y, rowHeight) carried as state.  It is the reference the replaying  *)
(* addTexture is compared with; `ok`, `ox`, `oy` are its last decision.    *)
(***************************************************************************)
ShelfEmpty ==
    [x |-> 0, y |-> 0, rowHeight |-> 0, ok |-> FALSE, names |-> {},
     tracked |-> TRUE, ox |-> 0, oy |-> 0]

ShelfAdd(sh, name, w, h, atlasW, atlasH) ==
    IF name \in sh.names
    THEN [sh EXCEPT !.ok = FALSE]
    ELSE LET wrap == sh.x + w > atlasW
             x == IF wrap THEN 0 ELSE sh.x
             y == IF wrap THEN sh.y + sh.rowHeight ELSE sh.y
             rowHeight == IF wrap THEN 0 ELSE sh.rowHeight
         IN  IF y + h > atlasH
             THEN [sh EXCEPT !.ok = FALSE]
             ELSE [sh EXCEPT !.x = x + w, !.y = y, !.rowHeight = Max(rowHeight, h),
                             !.names = @ \cup {name},
                             !.ok = TRUE, !.ox = x, !.oy = y]

(***************************************************************************)
(* The textures a caller passes to addTexture: four sizes, each in its own *)
(* format, each byte of the buffer different from its neighbours.          *)
(***************************************************************************)
MakeTexture(width, height, format, seed) ==
    [data_ |-> [i \in 1..(width * height * getBytesPerPixel(format)) |->
                    (seed + i) % 256],
     format_ |-> format, height_ |-> height, width_ |-> width]

SmallTextures ==
    {MakeTexture(1, 1, "RGBA", 10), MakeTexture(2, 1, "RGB", 50),
     MakeTexture(1, 2, "Grayscale", 200), MakeTexture(2, 2, "BGRA", 90)}

\* the textures of the 20x10 packing example
Textures20x10 ==
    {MakeTexture(10, 10, "RGBA", 10), MakeTexture(10, 5, "Grayscale", 200)}

Call(op, name, texture) == [name |-> name, texture |-> texture, op |-> op]

Ret(ok, region) == [region |-> region, ok |-> ok]

Atlas == [atlasImage_ |-> atlasImage_, regions_ |-> regions_, regionMap_ |-> regionMap_]

InitAtlas(width, height, pool) ==
    /\ atlasImage_ = TextureAtlas(width, height).atlasImage_
    /\ regions_ = TextureAtlas(width, height).regions_
    /\ regionMap_ = TextureAtlas(width, height).regionMap_
    /\ textures = pool
    /\ nOps = 0
    /\ call = Call("TextureAtlas", "", ImageDefault)
    /\ ret = Ret(TRUE, <<>>)
    /\ added = {}
    /\ shelf = ShelfEmpty
    /\ lastClear = [names |-> {}, called |-> FALSE]
    /\ image = ImageDefault

Init == InitAtlas(AtlasW, AtlasH, SmallTextures)

\* the 20x10 atlas of the packing example
Init20x10 == InitAtlas(20, 10, Textures20x10)

AddTexture(name, texture) ==
    LET r == addTexture(Atlas, name, texture)
    IN  /\ nOps < MaxOps
        /\ nOps' = nOps + 1
        /\ atlasImage_' = r.atlas.atlasImage_
        /\ regions_' = r.atlas.regions_
        /\ regionMap_' = r.atlas.regionMap_
        /\ call' = Call("addTexture", name, texture)
        /\ ret' = Ret(r.ok, <<>>)
        /\ added' = IF r.ok THEN added \cup {name} ELSE added
        /\ shelf' = IF shelf.tracked
                    THEN ShelfAdd(shelf, name, texture.width_, texture.height_,
                                  atlasImage_.width_, atlasImage_.height_)
                    ELSE shelf
        /\ UNCHANGED <<textures, lastClear, image>>

GetRegion(name) ==
    /\ call' = Call("getRegion", name, ImageDefault)
    /\ ret' = Ret(getRegion(Atlas, name) # <<>>, getRegion(Atlas, name))
    /\ UNCHANGED <<atlasImage_, regions_, regionMap_, textures, added, shelf, nOps,
                   lastClear, image>>

Optimize ==
    \E sorted \in SortOutcomes(regions_) :
        LET a == optimize(Atlas, sorted)
        IN  /\ nOps < MaxOps
            /\ nOps' = nOps + 1
            /\ atlasImage_' = a.atlasImage_
            /\ regions_' = a.regions_
            /\ regionMap_' = a.regionMap_
            /\ call' = Call("optimize", "", ImageDefault)
            /\ ret' = Ret(TRUE, <<>>)
            /\ shelf' = [shelf EXCEPT !.tracked = FALSE]
            /\ UNCHANGED <<textures, added, lastClear, image>>

Clear ==
    LET a == clear(Atlas)
    IN  /\ nOps < MaxOps
        /\ nOps' = nOps + 1
        /\ atlasImage_' = a.atlasImage_
        /\ regions_' = a.regions_
        /\ regionMap_' = a.regionMap_
        /\ call' = Call("clear", "", ImageDefault)
        /\ ret' = Ret(TRUE, <<>>)
        /\ added' = {}
        /\ shelf' = ShelfEmpty
        /\ lastClear' = [names |-> DOMAIN regionMap_, called |-> TRUE]
        /\ UNCHANGED <<textures, image>>

Next ==
    \/ \E name \in Names, texture \in textures : AddTexture(name, texture)
    \/ \E name \in Names : GetRegion(name)
    \/ Optimize
    \/ Clear

Spec == Init /\ [][Next]_vars

Spec20x10 == Init20x10 /\ [][Next]_vars

(***************************************************************************)
(* The Image operations on one Image.  It starts as any Image the two      *)
(* constructors give, or one whose buffer the caller has filled through    *)
(* getData(); the atlas variables stay as they are.                        *)
(***************************************************************************)
Sides == 0..MaxSide

\* bytes 36, 37, 38, ...
FilledImages == {MakeTexture(w, h, f, 35) : w \in Sides, h \in Sides, f \in Formats}

\* a row of 26 pixels, to be resized to 22
WideImage == MakeTexture(26, 1, "RGBA", 35)

\* odd width and height: 3 x 3, with a middle row and a middle column
OddImage == MakeTexture(3, 3, "RGB", 35)

\* a 10 x 10 RGBA buffer whose pixels all hold the colour (200, 100, 50, 255)
UniformColor == Color(200, 100, 50, 255)

UniformImage ==
    [data_ |-> [k \in 1..400 |->
                  <<UniformColor.r, UniformColor.g, UniformColor.b,
                    UniformColor.a>>[((k - 1) % 4) + 1]],
     format_ |-> "RGBA", height_ |-> 10, width_ |-> 10]

InitialImages ==
    {ImageDefault} \cup {Image(w, h, f) : w \in Sides, h \in Sides, f \in Formats}
        \cup FilledImages \cup {WideImage, OddImage, UniformImage}

Colors == {Color(255, 128, 0, 64), Color(37, 37, 37, 255)}

\* what the bytes past the end of the buffer hold, and what a NaN converts to
BeyondBytes == {<<0, 0>>, <<255, 255>>}

NanBytes == {0, 255}

\* lines along an axis in the four directions, one of no length, as
\* <<start, end>>; triangles of both windings, one with a corner left of
\* the image; coordinates doubled
Lines ==
    {<<Vector2f(0, 1), Vector2f(4, 1)>>, <<Vector2f(1, 4), Vector2f(1, 0)>>,
     <<Vector2f(6, 3), Vector2f(1, 3)>>, <<Vector2f(3, 0), Vector2f(3, 5)>>,
     <<Vector2f(2, 2), Vector2f(2, 2)>>}

\* lines of slope 3 : 4, drawn with thickness 5: (2, 1) to (5, 5) and back,
\* (8, 2) to (4, 5), (7, 8) to (3, 5); coordinates doubled
SlantedLines ==
    {<<Vector2f(4, 2), Vector2f(10, 10)>>, <<Vector2f(10, 10), Vector2f(4, 2)>>,
     <<Vector2f(16, 4), Vector2f(8, 10)>>, <<Vector2f(14, 16), Vector2f(6, 10)>>}

\* (0, 0) (0, 2) (2, 0) and (1, 2) (4, 9) (8, 3), each in both windings, and
\* (-1, 0.5) (0.5, 3) (2.5, 0.5), which has a vertex left of the buffer
Triangles ==
    {<<Vector2f(0, 0), Vector2f(0, 4), Vector2f(4, 0)>>,
     <<Vector2f(0, 0), Vector2f(4, 0), Vector2f(0, 4)>>,
     <<Vector2f(2, 4), Vector2f(8, 18), Vector2f(16, 6)>>,
     <<Vector2f(2, 4), Vector2f(16, 6), Vector2f(8, 18)>>,
     <<Vector2f(-2, 1), Vector2f(1, 6), Vector2f(5, 1)>>}

\* a side so long that the byte count passes 2^32
HugeSides == {65536}

ImageCall(op, args) == [op |-> op, args |-> args]

\* data_ holds the bytes of every pixel (x, y) with x < width_, y < height_
HoldsPixels(img) ==
    IF img.width_ = 0 \/ img.height_ = 0
    THEN TRUE
    ELSE (Len(img.data_) \div getBytesPerPixel(img.format_)) \div img.width_
             >= img.height_

InitImage ==
    /\ image \in InitialImages
    /\ atlasImage_ = TextureAtlas(0, 0).atlasImage_
    /\ regions_ = TextureAtlas(0, 0).regions_
    /\ regionMap_ = TextureAtlas(0, 0).regionMap_
    /\ textures = {}
    /\ nOps = 0
    /\ call = ImageCall("Image", <<>>)
    /\ ret = <<>>
    /\ added = {}
    /\ shelf = ShelfEmpty
    /\ lastClear = [names |-> {}, called |-> FALSE]

\* an Image operation `op` that leaves the Image as `img` and returns `value`
ImageOp(op, args, img, value) ==
    /\ nOps < MaxImageOps
    /\ nOps' = nOps + 1
    /\ image' = img
    /\ call' = ImageCall(op, args)
    /\ ret' = value
    /\ UNCHANGED <<atlasImage_, regions_, regionMap_, textures, added, shelf, lastClear>>

\* An Image whose buffer is shorter than its width_ * height_ pixels is
\* operated on no further, except by create: the other operations would run
\* over all its pixels and access bytes outside the buffer.
Create(width, height, format) ==
    ImageOp("create", [width |-> width, height |-> height, format |-> format],
            create(image, width, height, format), <<>>)

\* 22 columns are asked of the 26-column image only
Resize(width, height) ==
    /\ HoldsPixels(image)
    /\ width = 22 => image.width_ = 26
    /\ ImageOp("resize", [width |-> width, height |-> height],
               resize(image, width, height), <<>>)

SetPixel(x, y, color) ==
    /\ HoldsPixels(image)
    /\ ImageOp("setPixel", [x |-> x, y |-> y, color |-> color],
               setPixel(image, x, y, color), <<>>)

GetPixel(x, y) ==
    /\ HoldsPixels(image)
    /\ ImageOp("getPixel", [x |-> x, y |-> y], image, <<getPixel(image, x, y)>>)

FlipHorizontally ==
    /\ HoldsPixels(image)
    /\ ImageOp("flipHorizontally", <<>>, flipHorizontally(image), <<>>)

FlipVertically ==
    /\ HoldsPixels(image)
    /\ ImageOp("flipVertically", <<>>, flipVertically(image), <<>>)

Rotate(angle) ==
    /\ HoldsPixels(image)
    /\ ImageOp("rotate", [angle |-> angle], rotate(image, angle), <<>>)

ApplyGrayscale(beyond) ==
    /\ HoldsPixels(image)
    /\ ImageOp("applyGrayscale", [beyond |-> beyond],
               applyGrayscale(image, beyond), <<>>)

\* the conversion of a NaN is a choice only when the kernel has no tap
ApplyGaussianBlur(sigma8, nan) ==
    /\ HoldsPixels(image)
    /\ blurKernelSize(sigma8) > 0 => nan = 0
    /\ ImageOp("applyGaussianBlur", [sigma8 |-> sigma8, nan |-> nan],
               applyGaussianBlur(image, sigma8, nan), <<>>)

DrawLine(start, end, color, thickness) ==
    /\ HoldsPixels(image)
    /\ ImageOp("drawLine",
               [color |-> color, start |-> start, end |-> end, thickness |-> thickness],
               drawLine(image, start, end, color, thickness), <<>>)

FillTriangle(p1, p2, p3, color) ==
    /\ HoldsPixels(image)
    /\ ImageOp("fillTriangle", [color |-> color, p1 |-> p1, p2 |-> p2, p3 |-> p3],
               fillTriangle(image, p1, p2, p3, color), <<>>)

NextImage ==
    \/ \E width \in Sides, height \in Sides, format \in Formats :
          Create(width, height, format)
    \/ \E side \in HugeSides, format \in Formats : Create(side, side, format)
    \/ \E width \in Sides \cup {22}, height \in Sides : Resize(width, height)
    \/ \E x \in Sides, y \in Sides, color \in Colors : SetPixel(x, y, color)
    \/ \E x \in Sides, y \in Sides : GetPixel(x, y)
    \/ FlipHorizontally
    \/ FlipVertically
    \/ \E angle \in RotateAngles : Rotate(angle)
    \/ \E beyond \in BeyondBytes : ApplyGrayscale(beyond)
    \/ \E sigma8 \in BlurSigmas, nan \in NanBytes : ApplyGaussianBlur(sigma8, nan)
    \/ \E line \in Lines, thickness \in {1, 2} :
          DrawLine(line[1], line[2], Color(255, 128, 0, 64), thickness)
    \/ \E line \in SlantedLines :
          DrawLine(line[1], line[2], Color(255, 128, 0, 64), 5)
    \/ \E t \in Triangles : FillTriangle(t[1], t[2], t[3], Color(255, 128, 0, 64))

SpecImage == InitImage /\ [][NextImage]_vars

(***************************************************************************)
(* The calls of TextureGenerator::generatePerlinNoise.  `image` is the     *)
(* Image the last call returned.  The call record also holds what the call *)
(* drew from std::random_device (gradients) and what the conversion of a   *)
(* NaN gave (nan); neither is an argument of the function.                 *)
(***************************************************************************)
NoiseWidths == {1, 2, 4}

NoiseScales == {1, 2}

NoiseOctaves == {0, 1, 2}

\* the 256 draws of a call: the first three vary, the others are 0
GradientTables ==
    {[i \in 1..256 |-> IF i <= 3 THEN t[i] ELSE 0] : t \in [1..3 -> Draws]}

InitNoise ==
    /\ image = ImageDefault
    /\ atlasImage_ = TextureAtlas(0, 0).atlasImage_
    /\ regions_ = TextureAtlas(0, 0).regions_
    /\ regionMap_ = TextureAtlas(0, 0).regionMap_
    /\ textures = {}
    /\ nOps = 0
    /\ call = ImageCall("TextureGenerator", <<>>)
    /\ ret = <<>>
    /\ added = {}
    /\ shelf = ShelfEmpty
    /\ lastClear = [names |-> {}, called |-> FALSE]

\* the conversion of a NaN is a choice only when range = 0
GeneratePerlinNoise(width, height, scale, octaves, gradients, nan) ==
    /\ perlinRange(perlinNoise(gradients, width, scale, octaves)).range # 0 => nan = 0
    /\ image' = generatePerlinNoise(width, height, scale, octaves, gradients, nan)
    /\ call' = ImageCall("generatePerlinNoise",
                         [width |-> width, height |-> height, scale |-> scale,
                          nan |-> nan, gradients |-> gradients, octaves |-> octaves])
    /\ ret' = <<image'>>
    /\ UNCHANGED <<atlasImage_, regions_, regionMap_, textures, added, shelf,
                   lastClear, nOps>>

NextNoise ==
    \E width \in NoiseWidths, scale \in NoiseScales, octaves \in NoiseOctaves,
       gradients \in GradientTables, nan \in NanBytes :
          GeneratePerlinNoise(width, 1, scale, octaves, gradients, nan)

SpecNoise == InitNoise /\ [][NextNoise]_vars

(***************************************************************************)
(* Properties                                                              *)
(***************************************************************************)
NamesOf(regions) == {regions[i].name : i \in 1..Len(regions)}

NamedIn(regions, name) == {regions[i] : i \in {k \in 1..Len(regions) : regions[k].name = name}}

SizesOf(regions, name) == {<<r.bounds.width, r.bounds.height>> : r \in NamedIn(regions, name)}

Overlap(a, b) ==
    /\ a.x < b.x + b.width
    /\ b.x < a.x + a.width
    /\ a.y < b.y + b.height
    /\ b.y < a.y + a.height

\* the pixel (x, y) exists in img and reads as color
PixelIs(img, x, y, color) ==
    /\ x < img.width_
    /\ y < img.height_
    /\ getPixelUnsafe(img, x, y) = color

AddTextureStep == call'.op = "addTexture" /\ nOps' = nOps + 1

OptimizeStep == call'.op = "optimize" /\ nOps' = nOps + 1

GetRegionStep == call'.op = "getRegion" /\ nOps' = nOps

\* C1: on a 20x10 atlas, addTexture("a", 10x10) then addTexture("b", 10x10)
\* both return true and place "a" at (0,0) and "b" at (10,0); a third
\* addTexture of a 10x10 texture under a new name returns false and the atlas
\* still holds exactly the regions "a" and "b".  (nOps and the leading regions
\* identify the calls made so far.)
C1_PackingExample ==
    LET A == Region("a", Rect(0, 0, 10, 10))
        B == Region("b", Rect(10, 0, 10, 10))
    IN  (/\ atlasImage_.width_ = 20
         /\ atlasImage_.height_ = 10
         /\ call.op = "addTexture"
         /\ call.texture.width_ = 10
         /\ call.texture.height_ = 10)
        => /\ (nOps = 1 /\ call.name = "a")
                 => (ret.ok /\ regions_ = <<A>>)
           /\ (nOps = 2 /\ call.name = "b" /\ Len(regions_) >= 1 /\ regions_[1] = A)
                 => (ret.ok /\ regions_ = <<A, B>>)
           /\ (nOps = 3 /\ call.name = "c" /\ Len(regions_) >= 2
                        /\ regions_[1] = A /\ regions_[2] = B)
                 => (~ret.ok /\ regions_ = <<A, B>>)

\* C2: in every reachable state every registered region lies fully inside
\* the atlas image: bounds.x + bounds.width <= W and bounds.y + bounds.height <= H.
C2_RegionsInsideAtlas ==
    \A i \in 1..Len(regions_) :
        /\ regions_[i].bounds.x + regions_[i].bounds.width <= atlasImage_.width_
        /\ regions_[i].bounds.y + regions_[i].bounds.height <= atlasImage_.height_

\* C3: in every reachable state no two distinct registered regions of
\* non-zero area have overlapping bounds.
C3_NoOverlap ==
    \A i, j \in 1..Len(regions_) :
        (/\ i # j
         /\ regions_[i].bounds.width * regions_[i].bounds.height > 0
         /\ regions_[j].bounds.width * regions_[j].bounds.height > 0)
        => ~Overlap(regions_[i].bounds, regions_[j].bounds)

\* C4: the name index and the region list agree: region names are pairwise
\* distinct, the index has exactly the regions' names as keys, and it maps
\* each name n to a position i < regions.size() with regions[i].name = n.
C4_IndexConsistent ==
    /\ \A i, j \in 1..Len(regions_) : i # j => regions_[i].name # regions_[j].name
    /\ DOMAIN regionMap_ = NamesOf(regions_)
    /\ \A n \in DOMAIN regionMap_ :
          /\ regionMap_[n] \in 0..(Len(regions_) - 1)
          /\ regions_[regionMap_[n] + 1].name = n

\* an optimize that had regions of different heights to arrange
C4_Witness ==
    /\ call.op = "optimize"
    /\ Len(regions_) = 3
    /\ regions_[1].bounds.height > regions_[3].bounds.height
    /\ C4_IndexConsistent

\* C5: addTexture(name, image) returns false whenever a region named name is
\* registered, whatever the size of image, and the region registered under
\* that name keeps its bounds.
C5_DuplicateRejected ==
    [][(AddTextureStep /\ call'.name \in NamesOf(regions_))
       => (/\ ~ret'.ok
           /\ NamedIn(regions_', call'.name) = NamedIn(regions_, call'.name))]_vars

\* a rejected addTexture, after an optimize, of a registered name with a
\* texture of another width than the registered region
C5_Witness ==
    /\ call.op = "addTexture"
    /\ ~ret.ok
    /\ ~shelf.tracked
    /\ \E i \in 1..Len(regions_) :
          /\ regions_[i].name = call.name
          /\ regions_[i].bounds.width # call.texture.width_

\* C6: whenever addTexture returns false the atlas is exactly what it was
\* before the call: region list, name index, image dimensions and every pixel.
C6_FailureLeavesAtlas ==
    [][(AddTextureStep /\ ~ret'.ok)
       => (/\ atlasImage_' = atlasImage_
           /\ regions_' = regions_
           /\ regionMap_' = regionMap_)]_vars

\* an addTexture of a new name that failed for height, the cursor being
\* inside an atlas image that holds pixels
C6_Witness ==
    /\ call.op = "addTexture"
    /\ ~ret.ok
    /\ call.name \notin NamesOf(regions_)
    /\ addTextureCursor(Atlas, call.texture).currentX < atlasImage_.width_
    /\ addTextureCursor(Atlas, call.texture).currentY < atlasImage_.height_
    /\ \E k \in 1..Len(atlasImage_.data_) : atlasImage_.data_[k] # 0

\* C7: whenever addTexture(name, image) returns true, exactly one region is
\* appended with that name and the image's width and height, it is indexed
\* by name, and for every (x,y) of the image the atlas pixel at
\* (bounds.x + x, bounds.y + y) equals the image pixel (x,y).
C7_SuccessCopiesTexture ==
    [][(AddTextureStep /\ ret'.ok)
       => LET t == call'.texture
              r == regions_'[Len(regions_')]
          IN  /\ regions_' = Append(regions_, r)
              /\ r.name = call'.name
              /\ r.bounds.width = t.width_
              /\ r.bounds.height = t.height_
              /\ call'.name \in DOMAIN regionMap_'
              /\ regionMap_'[call'.name] = Len(regions_') - 1
              /\ \A x \in 0..(t.width_ - 1), y \in 0..(t.height_ - 1) :
                    PixelIs(atlasImage_', r.bounds.x + x, r.bounds.y + y,
                            getPixel(t, x, y))]_vars

\* C8: for every sequence of addTexture calls the result and the origin
\* chosen by addTexture equal those of the incremental shelf packer.
C8_SameAsShelfPacker ==
    (shelf.tracked /\ call.op = "addTexture")
    => /\ ret.ok = shelf.ok
       /\ ret.ok => /\ regions_[Len(regions_)].bounds.x = shelf.ox
                    /\ regions_[Len(regions_)].bounds.y = shelf.oy

\* C9: getRegion(name) returns a region exactly when name was added by a
\* successful addTexture since the last clear; the region has that name and
\* its current bounds; otherwise it returns null; the atlas is unchanged.
C9_GetRegion ==
    [][GetRegionStep
       => /\ atlasImage_' = atlasImage_
          /\ regions_' = regions_
          /\ regionMap_' = regionMap_
          /\ ret'.ok = (call'.name \in added)
          /\ IF call'.name \in added
             THEN \E i \in 1..Len(regions_) :
                     /\ regions_[i].name = call'.name
                     /\ ret'.region = <<regions_[i]>>
             ELSE ret'.region = <<>>]_vars

\* a getRegion that found a region an optimize had moved
C9_Witness ==
    /\ call.op = "getRegion"
    /\ ret.ok
    /\ ~shelf.tracked
    /\ Len(regions_) = 3
    /\ ret.region[1].name = call.name
    /\ ret.region[1] # regions_[1]

\* C10: optimize() leaves unchanged the atlas image's width, height and
\* format, the number of regions, the set of region names and the width and
\* height of each named region.
C10_OptimizeFrame ==
    [][OptimizeStep
       => /\ atlasImage_'.width_ = atlasImage_.width_
          /\ atlasImage_'.height_ = atlasImage_.height_
          /\ atlasImage_'.format_ = atlasImage_.format_
          /\ Len(regions_') = Len(regions_)
          /\ NamesOf(regions_') = NamesOf(regions_)
          /\ \A n \in NamesOf(regions_) :
                SizesOf(regions_', n) = SizesOf(regions_, n)]_vars

\* an optimize that arranged three regions over more than one row
C10_Witness ==
    /\ call.op = "optimize"
    /\ Len(regions_) = 3
    /\ regions_[3].bounds.y > 0

ClearStep == call'.op = "clear" /\ nOps' = nOps + 1

\* C11: optimize() preserves pixel content: for every region name n and every
\* (x,y) inside the region whose pixel the atlas image holds before the call,
\* the atlas pixel at (newBounds(n).x + x, newBounds(n).y + y) after optimize
\* exists and equals the atlas pixel at (oldBounds(n).x + x, oldBounds(n).y + y)
\* before optimize.
C11_OptimizeKeepsPixels ==
    [][OptimizeStep
       => \A i \in 1..Len(regions_), j \in 1..Len(regions_') :
             regions_'[j].name = regions_[i].name
             => LET old == regions_[i].bounds
                    new == regions_'[j].bounds
                IN  \A x \in 0..(old.width - 1), y \in 0..(old.height - 1) :
                       (old.x + x < atlasImage_.width_ /\ old.y + y < atlasImage_.height_)
                       => PixelIs(atlasImage_', new.x + x, new.y + y,
                                  getPixelUnsafe(atlasImage_, old.x + x, old.y + y))]_vars

\* C12: calling optimize() twice in a row is idempotent on the layout: for
\* every region name the bounds after the second call equal the bounds after
\* the first call, for any order the sort may give to regions of equal height.
C12_OptimizeTwice ==
    [][(call.op = "optimize" /\ OptimizeStep)
       => \A n \in NamesOf(regions_) :
             NamedIn(regions_', n) = NamedIn(regions_, n)]_vars

\* C13: after clear() the atlas image has the same width, height and format
\* as before and is blank: every byte of the atlas image is zero.
C13_ClearBlanksImage ==
    [][ClearStep
       => /\ atlasImage_'.width_ = atlasImage_.width_
          /\ atlasImage_'.height_ = atlasImage_.height_
          /\ atlasImage_'.format_ = atlasImage_.format_
          /\ \A k \in 1..Len(atlasImage_'.data_) : atlasImage_'.data_[k] = 0]_vars

\* the atlas after the step
AtlasAfter ==
    [atlasImage_ |-> atlasImage_', regions_ |-> regions_', regionMap_ |-> regionMap_']

\* C14: clear() returns the atlas to the empty state: right after it
\* getRegion returns not-found for every name; and the first addTexture after
\* the clear of a texture that fits the atlas returns true, under a name
\* registered before the clear as under any other, and places the texture at
\* the origin (0,0).
C14_ClearEmpties ==
    [][/\ ClearStep => \A n \in Names : getRegion(AtlasAfter, n) = <<>>
       /\ (call.op = "clear" /\ GetRegionStep) => (~ret'.ok /\ ret'.region = <<>>)
       /\ (/\ lastClear.called
           /\ added = {}
           /\ AddTextureStep
           /\ call'.texture.width_ <= atlasImage_.width_
           /\ call'.texture.height_ <= atlasImage_.height_)
          => /\ ret'.ok
             /\ regions_' = <<Region(call'.name,
                                     Rect(0, 0, call'.texture.width_,
                                          call'.texture.height_))>>
             /\ getRegion(AtlasAfter, call'.name) = <<regions_'[1]>>]_vars

\* a texture added at the origin, first after a clear, under a name that was
\* registered when clear was called
C14_Witness ==
    /\ call.op = "addTexture"
    /\ ret.ok
    /\ lastClear.called
    /\ call.name \in lastClear.names
    /\ added = {call.name}
    /\ regions_[1].bounds.x = 0
    /\ regions_[1].bounds.y = 0

\* C15: for every Image, after construction and after any sequence of
\* create, resize, setPixel, flipHorizontally, flipVertically, rotate,
\* applyGrayscale, applyGaussianBlur, drawLine and fillTriangle calls, the
\* byte buffer length equals width * height * bytesPerPixel(format), with
\* bytesPerPixel RGB=3, RGBA=4, BGR=3, BGRA=4, Grayscale=1.  (The equality is
\* stated with quotients: the product of two long sides is not formed.)
C15_BufferLength ==
    LET bytesPerPixel == CASE image.format_ = "RGB" -> 3
                           [] image.format_ = "RGBA" -> 4
                           [] image.format_ = "BGR" -> 3
                           [] image.format_ = "BGRA" -> 4
                           [] image.format_ = "Grayscale" -> 1
        pixels == Len(image.data_) \div bytesPerPixel
    IN  IF image.width_ = 0 \/ image.height_ = 0
        THEN Len(image.data_) = 0
        ELSE /\ Len(image.data_) % bytesPerPixel = 0
             /\ pixels % image.width_ = 0
             /\ pixels \div image.width_ = image.height_

SetPixelStep == call'.op = "setPixel" /\ nOps' = nOps + 1

GetPixelStep == call'.op = "getPixel" /\ nOps' = nOps + 1

InBounds(img, x, y) == x < img.width_ /\ y < img.height_

\* the luminance 0.299 R + 0.587 G + 0.114 B of the claim, cut to a whole
\* number: the floor of (299 R + 587 G + 114 B) / 1000
LuminanceExact(c) == (299 * c.r + 587 * c.g + 114 * c.b) \div 1000

\* C16: for every format, every in-bounds (x,y) and every colour c with
\* integer channels in 0..255, getPixel(x,y) right after setPixel(x,y,c)
\* returns c passed through the format's conversion: exactly c for RGBA and
\* BGRA, the r,g,b of c for RGB and BGR, and R=G=B=luminance(c) for Grayscale,
\* where luminance is 0.299R + 0.587G + 0.114B truncated to a byte.
C16_SetThenGet ==
    [][(SetPixelStep /\ InBounds(image, call'.args.x, call'.args.y))
       => LET c == call'.args.color
              got == getPixel(image', call'.args.x, call'.args.y)
              f == image'.format_
          IN  /\ f \in {"RGBA", "BGRA"} => got = c
              /\ f \in {"RGB", "BGR"} => (got.r = c.r /\ got.g = c.g /\ got.b = c.b)
              /\ f = "Grayscale" => /\ got.r = LuminanceExact(c)
                                    /\ got.g = LuminanceExact(c)
                                    /\ got.b = LuminanceExact(c)]_vars

\* C17: a setPixel at a coordinate with x >= width or y >= height leaves the
\* image as it was, every byte included, and a getPixel there returns the
\* default colour Color() and leaves the image alone; both calls return.
C17_OutOfBounds ==
    [][/\ (SetPixelStep /\ ~InBounds(image, call'.args.x, call'.args.y))
            => image' = image
       /\ (GetPixelStep /\ ~InBounds(image, call'.args.x, call'.args.y))
            => (ret' = <<ColorDefault>> /\ image' = image)]_vars

\* setPixel(width, 0, c) has returned on an image of two rows that holds
\* non-zero bytes
C17_Witness ==
    /\ call.op = "setPixel"
    /\ call.args.x = image.width_
    /\ call.args.y = 0
    /\ image.width_ > 0
    /\ image.height_ = 2
    /\ \E i \in 1..Len(image.data_) : image.data_[i] # 0

CreateStep == call'.op = "create" /\ nOps' = nOps + 1

\* C18: after create(w, h, format) on any image, one holding non-zero
\* pixels included, the image has that width, height and format and every
\* byte of its buffer is zero.
C18_CreateZeroes ==
    [][CreateStep
       => /\ image'.width_ = call'.args.width
          /\ image'.height_ = call'.args.height
          /\ image'.format_ = call'.args.format
          /\ \A i \in 1..Len(image'.data_) : image'.data_[i] = 0]_vars

ResizeStep == call'.op = "resize" /\ nOps' = nOps + 1

\* C19: after resize(newW, newH) on an image that holds pixels the image has
\* size newW x newH and its old format, and each pixel (x, y) of it equals the
\* old pixel at (floor(x * oldW / newW), floor(y * oldH / newH)), a
\* coordinate inside the old image.
C19_ResizeNearest ==
    [][(ResizeStep /\ image.width_ > 0 /\ image.height_ > 0)
       => LET newW == call'.args.width
              newH == call'.args.height
          IN  /\ image'.width_ = newW
              /\ image'.height_ = newH
              /\ image'.format_ = image.format_
              /\ Len(image'.data_) = bufferSize(newW, newH, image.format_)
              /\ \A x \in 0..(newW - 1), y \in 0..(newH - 1) :
                    LET srcX == (x * image.width_) \div newW
                        srcY == (y * image.height_) \div newH
                    IN  /\ InBounds(image, srcX, srcY)
                        /\ getPixel(image', x, y) = getPixel(image, srcX, srcY)]_vars

FlipHorizontallyStep == call'.op = "flipHorizontally" /\ nOps' = nOps + 1

FlipVerticallyStep == call'.op = "flipVertically" /\ nOps' = nOps + 1

SameShape(a, b) ==
    /\ a.width_ = b.width_
    /\ a.height_ = b.height_
    /\ a.format_ = b.format_
    /\ Len(a.data_) = Len(b.data_)

RotateStep == call'.op = "rotate" /\ nOps' = nOps + 1

\* C21: rotate(0) is the identity: after it the image has the width, height
\* and format it had and every pixel is the pixel that was there.
C21_RotateZero ==
    [][(RotateStep /\ call'.args.angle = 0)
       => /\ SameShape(image', image)
          /\ \A x \in 0..(image.width_ - 1), y \in 0..(image.height_ - 1) :
                getPixel(image', x, y) = getPixel(image, x, y)]_vars

ApplyGrayscaleStep == call'.op = "applyGrayscale" /\ nOps' = nOps + 1

\* C22: after applyGrayscale on an RGB, RGBA, BGR or BGRA image every pixel
\* read with getPixel has r = g = b = the luminance 0.299 R + 0.587 G +
\* 0.114 B, cut to a whole number, of the colour getPixel returned before the
\* call, and the alpha of an RGBA or BGRA pixel is the one it had.
C22_GrayscaleLuminance ==
    [][(ApplyGrayscaleStep /\ image.format_ # "Grayscale")
       => \A x \in 0..(image.width_ - 1), y \in 0..(image.height_ - 1) :
             LET before == getPixel(image, x, y)
                 after == getPixel(image', x, y)
             IN  /\ after.r = LuminanceExact(before)
                 /\ after.g = LuminanceExact(before)
                 /\ after.b = LuminanceExact(before)
                 /\ after.a = before.a]_vars

ApplyGaussianBlurStep == call'.op = "applyGaussianBlur" /\ nOps' = nOps + 1

IsUniform(img, c) ==
    \A x \in 0..(img.width_ - 1), y \in 0..(img.height_ - 1) : getPixel(img, x, y) = c

\* C23: a 10 x 10 buffer whose pixels all hold one colour c is a fixed point
\* of applyGaussianBlur, for any sigma: after the blur every pixel holds c.
C23_BlurUniform ==
    [][(ApplyGaussianBlurStep /\ image.width_ = 10 /\ image.height_ = 10
            /\ IsUniform(image, getPixel(image, 0, 0)))
       => /\ SameShape(image', image)
          /\ IsUniform(image', getPixel(image, 0, 0))]_vars

FillTriangleStep == call'.op = "fillTriangle" /\ nOps' = nOps + 1

\* the pixel (x, y) lies in the integer bounding box of the triangle, from
\* the floor of the least coordinate to the ceiling of the greatest
\* (vertices hold doubled coordinates)
InBoundingBox(p1, p2, p3, x, y) ==
    /\ \E q \in {p1, p2, p3} : q.x < 2 * x + 2
    /\ \E q \in {p1, p2, p3} : 2 * x < q.x
    /\ \E q \in {p1, p2, p3} : q.y < 2 * y + 2
    /\ \E q \in {p1, p2, p3} : 2 * y < q.y

\* the three edge values at the centre of pixel (x, y) are non-negative
EdgesNonNegative(p1, p2, p3, x, y) ==
    LET p == Vector2f(2 * x + 1, 2 * y + 1)
    IN  /\ edge(p2, p3, p) >= 0
        /\ edge(p3, p1, p) >= 0
        /\ edge(p1, p2, p) >= 0

\* C24: fillTriangle(p1, p2, p3, color) sets the pixel (x, y) of the buffer to
\* color exactly when it lies in the triangle's integer bounding box and the
\* edge values edge(p2,p3,p), edge(p3,p1,p), edge(p1,p2,p) at its centre are
\* all non-negative; every other pixel, and width, height and format, stay.
C24_FillTriangle ==
    [][FillTriangleStep
       => LET a == call'.args
          IN  /\ SameShape(image', image)
              /\ \A x \in 0..(image.width_ - 1), y \in 0..(image.height_ - 1) :
                    getPixel(image', x, y) =
                       IF InBoundingBox(a.p1, a.p2, a.p3, x, y)
                            /\ EdgesNonNegative(a.p1, a.p2, a.p3, x, y)
                       THEN getPixel(setPixel(image, x, y, a.color), x, y)
                       ELSE getPixel(image, x, y)]_vars

\* fillTriangle((-1, 0.5), (0.5, 3), (2.5, 0.5)) has returned on the 3 x 3
\* image: pixel (0, 1), inside, holds the colour; pixel (2, 2) is as it was
C24_Witness ==
    /\ call.op = "fillTriangle"
    /\ call.args.p1 = Vector2f(-2, 1)
    /\ image.width_ = 3
    /\ image.height_ = 3
    /\ getPixel(image, 0, 1).r = call.args.color.r
    /\ getPixel(image, 0, 1) # getPixel(OddImage, 0, 1)
    /\ getPixel(image, 2, 2) = getPixel(OddImage, 2, 2)

\* twice the signed area of the triangle p1 p2 p3 (times four, the
\* coordinates being doubled): (p2 - p1) x (p3 - p1)
SignedArea(p1, p2, p3) ==
    (p2.x - p1.x) * (p3.y - p1.y) - (p3.x - p1.x) * (p2.y - p1.y)

\* C25: of the two windings of a triangle of non-zero area fillTriangle fills
\* one only: given the vertices in the other winding (positive signed area
\* (p2 - p1) x (p3 - p1)) it returns with no pixel changed.
C25_OppositeWinding ==
    [][(FillTriangleStep
            /\ SignedArea(call'.args.p1, call'.args.p2, call'.args.p3) > 0)
       => image' = image]_vars

\* fillTriangle((1, 2), (8, 3), (4, 9)) has returned on the 10 x 10 image,
\* which is as it was; the same vertices in the order (1, 2), (4, 9), (8, 3)
\* fill its pixel (4, 4)
C25_Witness ==
    /\ call.op = "fillTriangle"
    /\ call.args.p2 = Vector2f(16, 6)
    /\ SignedArea(call.args.p1, call.args.p2, call.args.p3) > 0
    /\ image = UniformImage
    /\ getPixel(fillTriangle(image, call.args.p1, call.args.p3, call.args.p2,
                             call.args.color), 4, 4) = call.args.color

NoiseCall(c) == c.op = "generatePerlinNoise"

\* the arguments of a generatePerlinNoise call
NoiseArguments(c) ==
    <<c.args.width, c.args.height, c.args.scale, c.args.octaves>>

\* C26: two calls of generatePerlinNoise with the same width, height, scale
\* and octaves return the same buffer, byte for byte.
C26_NoiseDeterministic ==
    [][(NoiseCall(call) /\ NoiseCall(call')
            /\ NoiseArguments(call') = NoiseArguments(call))
       => image'.data_ = image.data_]_vars

\* C27: generatePerlinNoise returns a Grayscale buffer of width x height, the
\* divisor maxVal - minVal of its normalisation is not zero, and every
\* accumulated value lies between minVal and maxVal, so that its normalised
\* value lies in [0, 1].
C27_NoiseNormalised ==
    [][NoiseCall(call')
       => LET a == call'.args
              noise == perlinNoise(a.gradients, a.width, a.scale, a.octaves)
              r == perlinRange(noise)
          IN  /\ image'.format_ = "Grayscale"
              /\ image'.width_ = a.width
              /\ image'.height_ = a.height
              /\ Len(image'.data_) = a.width * a.height
              /\ r.range # 0
              /\ \A x \in DOMAIN noise :
                    0 <= noise[x] - r.minVal /\ noise[x] - r.minVal <= r.range]_vars

\* C28: as long as only addTexture has changed the atlas (no optimize, no
\* clear), a successful addTexture leaves the atlas pixels inside the bounds
\* of every region registered before it as they were: a later texture never
\* overwrites the pixels of an earlier region.
C28_AddKeepsEarlierRegions ==
    [][(AddTextureStep /\ ret'.ok /\ shelf.tracked /\ ~lastClear.called)
       => \A i \in 1..Len(regions_) :
             LET b == regions_[i].bounds
             IN  \A x \in 0..(b.width - 1), y \in 0..(b.height - 1) :
                    (b.x + x < atlasImage_.width_ /\ b.y + y < atlasImage_.height_)
                    => PixelIs(atlasImage_', b.x + x, b.y + y,
                               getPixelUnsafe(atlasImage_, b.x + x, b.y + y))]_vars

\* C29: applyGrayscale is memory-safe for each of the five formats: every
\* byte index an iteration of its loop reads or writes is smaller than the
\* length of the buffer and belongs to the pixel the iteration processes.
C29_GrayscaleInBuffer ==
    [][ApplyGrayscaleStep
       => LET bytesPerPixel == getBytesPerPixel(image.format_)
          IN  \A i \in 0..(image.width_ * image.height_ - 1) :
                 \A k \in applyGrayscaleIndices(image, i) :
                    /\ k < Len(image.data_)
                    /\ i * bytesPerPixel <= k
                    /\ k < (i + 1) * bytesPerPixel]_vars

DrawLineStep == call'.op = "drawLine" /\ nOps' = nOps + 1

\* the centre of pixel (x, y) lies in the rectangle around the segment from
\* start to end that reaches thickness / 2 to either side: its offset c from
\* start has 0 <= c . d <= d . d along the segment d = end - start, and
\* |c x d| <= (thickness / 2) * |d| across it (coordinates doubled)
InLineQuad(start, end, thickness, x, y) ==
    LET dx == end.x - start.x
        dy == end.y - start.y
        cx == 2 * x + 1 - start.x
        cy == 2 * y + 1 - start.y
        along == cx * dx + cy * dy
        across == cx * dy - cy * dx
    IN  /\ 0 <= along
        /\ along <= dx * dx + dy * dy
        /\ across * across <= thickness * thickness * (dx * dx + dy * dy)

\* C30: for a line with start # end and thickness > 0, in any direction, the
\* triangles (q0, q1, q2) and (q0, q2, q3) that drawLine passes to
\* fillTriangle both have the winding fillTriangle fills (negative signed
\* area), and every pixel of the buffer whose centre lies inside the quad
\* holds color afterwards; a line of no length leaves the buffer unchanged.
C30_DrawLineWinding ==
    [][DrawLineStep
       => LET a == call'.args
          IN  IF a.start = a.end
              THEN image' = image
              ELSE LET q == drawLineQuad(a.start, a.end, a.thickness)
                   IN  /\ SignedArea(q[1], q[2], q[3]) < 0
                       /\ SignedArea(q[1], q[3], q[4]) < 0
                       /\ SameShape(image', image)
                       /\ \A x \in 0..(image.width_ - 1), y \in 0..(image.height_ - 1) :
                             InLineQuad(a.start, a.end, a.thickness, x, y)
                             => getPixel(image', x, y) =
                                   getPixel(setPixel(image, x, y, a.color), x, y)]_vars

\* drawLine from (8, 2) to (4, 5) with thickness 5 has returned on the
\* 10 x 10 image: the pixels (5, 3), inside the first triangle, and (6, 4),
\* inside the second, hold the colour; pixel (0, 0), outside, is as it was
C30_Witness ==
    /\ call.op = "drawLine"
    /\ call.args.start = Vector2f(16, 4)
    /\ call.args.end = Vector2f(8, 10)
    /\ image.width_ = 10
    /\ image.height_ = 10
    /\ getPixel(image, 5, 3) = call.args.color
    /\ getPixel(image, 6, 4) = call.args.color
    /\ getPixel(image, 0, 0) = UniformColor

====
